---- MODULE Spec2Model ----
(***************************************************************************)
(* Model of Main.py of notion-auto-equation: the recursive block fetcher   *)
(* (get_all_blocks), the normalizer (blocks_to_dataframe), the segmenter   *)
(* (format_content_for_notion), the reassembler                            *)
(* (combine_text_and_equations) and the batch writer                       *)
(* (upload_blocks_in_batches).                                             *)
(*                                                                         *)
(* Each component has its own specification (SpecFetch, SpecSegment,       *)
(* SpecNormalize, SpecCombine, SpecUpload); the variables of the other     *)
(* components rest at their idle values.                                   *)
(***************************************************************************)
EXTENDS Integers, Sequences, FiniteSets, TLC

VARIABLES
    \* ---- get_all_blocks / get_notion_page_content ----
    nodes,        \* number of blocks below the page (ids 1..nodes; the page is 0)
    parent,       \* the remote tree: parent[i] is the block whose children hold i
    page_size,    \* how many children the transport puts on one page
    max_retries,  \* the max_retries argument
    stack,        \* call stack of get_all_blocks frames, innermost last
    page_content, \* what get_notion_page_content returned (<<>> before it returns)
    log,          \* every requests.get made: block, cursor, outcome, sleep after it
    returned,     \* return value of every finished get_all_blocks call, by block id
    \* ---- format_content_for_notion ----
    text,         \* the input string (a sequence of characters)
    runs,         \* the list it returned
    seg_pc,       \* "idle" | "call" | "done"
    \* ---- blocks_to_dataframe / to_dataframe_safe ----
    raw_blocks,   \* the fetched blocks handed to the normalizer
    df_local,     \* what to_dataframe_safe returned
    norm_pc,      \* "idle" | "call" | "done"
    \* ---- combine_text_and_equations ----
    df,           \* the flat records (rows of the DataFrame)
    combined,     \* the outbound blocks returned
    comb_pc,      \* "idle" | "call" | "done"
    \* ---- upload_blocks_in_batches / upload_to_notion ----
    combined_blocks, \* the list to upload
    batch_size,      \* the batch_size argument
    i,               \* the loop variable of range(0, total, batch_size)
    writes,          \* every requests.patch made: its children and its outcome
    up_pc            \* "idle" | "loop" | "done"

fetchVars == <<nodes, parent, page_size, max_retries, stack, page_content, log, returned>>
segVars   == <<text, runs, seg_pc>>
normVars  == <<raw_blocks, df_local, norm_pc>>
combVars  == <<df, combined, comb_pc>>
upVars    == <<combined_blocks, batch_size, i, writes, up_pc>>
vars      == <<fetchVars, segVars, normVars, combVars, upVars>>

(***************************************************************************)
(* Bounds of the model.                                                    *)
(***************************************************************************)
MaxNodes      == 3   \* blocks below the page
MaxPageSize   == 2   \* children per page of the transport
MaxMaxRetries == 4   \* largest max_retries tried (0 included)
MaxTextLen    == 7   \* longest input of the segmenter
MaxRawBlocks  == 3   \* longest block list given to the normalizer
MaxRows       == 2   \* longest record list given to the reassembler
MaxUpload     == 6   \* longest list given to the batch writer
MaxBatchSize  == 3   \* largest batch_size tried

Min(a, b) == IF a < b THEN a ELSE b

(***************************************************************************)
(* Idle values: what a component's variables hold while another component  *)
(* is being explored.                                                      *)
(***************************************************************************)
FetchIdle ==
    /\ nodes = 0 /\ parent = <<>> /\ page_size = 1 /\ max_retries = 3
    /\ stack = <<>> /\ page_content = <<>> /\ log = <<>> /\ returned = <<>>
SegIdle  == text = <<>> /\ runs = <<>> /\ seg_pc = "idle"
NormIdle == raw_blocks = <<>> /\ df_local = <<>> /\ norm_pc = "idle"
CombIdle == df = <<>> /\ combined = <<>> /\ comb_pc = "idle"
UpIdle   ==
    /\ combined_blocks = <<>> /\ batch_size = 1 /\ i = 0
    /\ writes = <<>> /\ up_pc = "idle"

(***************************************************************************)
(* The remote document and the read transport                              *)
(* GET /v1/blocks/{block_id}/children                                      *)
(***************************************************************************)
NoCursor == 0            \* Python None: no start_cursor / no next_cursor
PageId   == 0            \* the page whose content is fetched

\* The children of block b in the remote document, in document order.
RECURSIVE ChildrenFrom(_, _)
ChildrenFrom(b, k) ==
    IF k > nodes THEN <<>>
    ELSE (IF parent[k] = b THEN <<k>> ELSE <<>>) \o ChildrenFrom(b, k + 1)
Children(b) == ChildrenFrom(b, 1)

\* A block as the API returns it: its id and its has_children flag.
Block(k) == [id |-> k, has_children |-> Children(k) # <<>>]

\* response.json() of a successful request for the page at start_cursor:
\* the cursor handed out for the p-th page is p, the first page has none.
Response(block_id, start_cursor) ==
    LET p    == IF start_cursor = NoCursor THEN 1 ELSE start_cursor
        ch   == Children(block_id)
        from == (p - 1) * page_size + 1
        to   == Min(p * page_size, Len(ch))
        more == p * page_size < Len(ch)
    IN  [results     |-> [j \in 1..(IF to >= from THEN to - from + 1 ELSE 0)
                              |-> Block(ch[from + j - 1])],
         has_more    |-> more,
         next_cursor |-> IF more THEN p + 1 ELSE NoCursor]

(***************************************************************************)
(* get_all_blocks                                                          *)
(***************************************************************************)
\* The locals of a call that has just entered `while has_more`.
NewFrame(block_id) ==
    [block_id     |-> block_id,
     blocks       |-> <<>>,
     start_cursor |-> NoCursor,
     attempt      |-> 0,
     results      |-> <<>>,      \* the rest of `for block in results`
     has_more     |-> FALSE,     \* data.get('has_more') of the page iterated
     next_cursor  |-> NoCursor,  \* data.get('next_cursor') of the page iterated
     pc           |-> "request"] \* "request": in `while attempt < max_retries`
                                 \* "for":     in `for block in results`

Top == stack[Len(stack)]
Running == stack # <<>>

\* the backoff without its cap: time.sleep(2 * attempt)
Backoff_NoCap(attempt) == 2 * attempt

\* time.sleep(min(2 * attempt, 5))
Backoff(attempt) == Min(2 * attempt, 5)

\* the caller splices the child's list before its own blocks
ReturnBlocks_Prepend(blocks) ==
    LET n == Len(stack) IN
    /\ returned' = returned @@ (Top.block_id :> blocks)
    /\ IF n = 1
       THEN /\ stack' = <<>>
            /\ page_content' = blocks
       ELSE /\ stack' = [SubSeq(stack, 1, n - 1) EXCEPT
                            ![n - 1].blocks = blocks \o @]
            /\ UNCHANGED page_content

\* the caller does blocks = child_blocks instead of blocks.extend(child_blocks)
ReturnBlocks_Assign(blocks) ==
    LET n == Len(stack) IN
    /\ returned' = returned @@ (Top.block_id :> blocks)
    /\ IF n = 1
       THEN /\ stack' = <<>>
            /\ page_content' = blocks
       ELSE /\ stack' = [SubSeq(stack, 1, n - 1) EXCEPT
                            ![n - 1].blocks = blocks]
            /\ UNCHANGED page_content

\* `return blocks` of the innermost call: the caller, if there is one, does
\* blocks.extend(child_blocks) and goes on with its for loop; the outermost
\* call returns to get_notion_page_content.
ReturnBlocks(blocks) ==
    LET n == Len(stack) IN
    /\ returned' = returned @@ (Top.block_id :> blocks)
    /\ IF n = 1
       THEN /\ stack' = <<>>
            /\ page_content' = blocks
       ELSE /\ stack' = [SubSeq(stack, 1, n - 1) EXCEPT
                            ![n - 1].blocks = @ \o blocks]
            /\ UNCHANGED page_content

LogRequest(outcome, slept) ==
    log' = Append(log, [block_id |-> Top.block_id, cursor |-> Top.start_cursor,
                        outcome |-> outcome, slept |-> slept])

\* requests.get succeeds: data = response.json(); break
RequestOk ==
    /\ Running /\ Top.pc = "request" /\ Top.attempt < max_retries
    /\ LET data == Response(Top.block_id, Top.start_cursor) IN
       stack' = [stack EXCEPT ![Len(stack)] =
                    [@ EXCEPT !.results = data.results,
                              !.has_more = data.has_more,
                              !.next_cursor = data.next_cursor,
                              !.pc = "for"]]
    /\ LogRequest("ok", 0)
    /\ UNCHANGED <<nodes, parent, page_size, max_retries, page_content, returned>>
    /\ UNCHANGED <<segVars, normVars, combVars, upVars>>

\* on exhaustion the call returns [] instead of what it accumulated
RequestTransient_DropsAccumulated ==
    /\ Running /\ Top.pc = "request" /\ Top.attempt < max_retries
    /\ LET attempt == Top.attempt + 1 IN
       IF attempt < max_retries
       THEN /\ stack' = [stack EXCEPT ![Len(stack)].attempt = attempt]
            /\ LogRequest("transient", Backoff(attempt))
            /\ UNCHANGED <<page_content, returned>>
       ELSE /\ ReturnBlocks(<<>>)
            /\ LogRequest("transient", 0)
    /\ UNCHANGED <<nodes, parent, page_size, max_retries>>
    /\ UNCHANGED <<segVars, normVars, combVars, upVars>>

\* requests.get raises RequestException: count the attempt, then sleep and
\* retry, or give up and return what was accumulated.
RequestTransient ==
    /\ Running /\ Top.pc = "request" /\ Top.attempt < max_retries
    /\ LET attempt == Top.attempt + 1 IN
       IF attempt < max_retries
       THEN /\ stack' = [stack EXCEPT ![Len(stack)].attempt = attempt]
            /\ LogRequest("transient", Backoff(attempt))
            /\ UNCHANGED <<page_content, returned>>
       ELSE /\ ReturnBlocks(Top.blocks)
            /\ LogRequest("transient", 0)
    /\ UNCHANGED <<nodes, parent, page_size, max_retries>>
    /\ UNCHANGED <<segVars, normVars, combVars, upVars>>

\* any other exception inside the try: return what was accumulated, no retry.
RequestUnexpected ==
    /\ Running /\ Top.pc = "request" /\ Top.attempt < max_retries
    /\ ReturnBlocks(Top.blocks)
    /\ LogRequest("unexpected", 0)
    /\ UNCHANGED <<nodes, parent, page_size, max_retries>>
    /\ UNCHANGED <<segVars, normVars, combVars, upVars>>

\* `while attempt < max_retries` is false on entry (max_retries <= 0): data
\* stays None, results is [], has_more becomes False and the call returns.
NoAttempt ==
    /\ Running /\ Top.pc = "request" /\ ~(Top.attempt < max_retries)
    /\ ReturnBlocks(Top.blocks)
    /\ UNCHANGED <<nodes, parent, page_size, max_retries, log>>
    /\ UNCHANGED <<segVars, normVars, combVars, upVars>>

\* one iteration of `for block in results` on a block without children
ForBlockLeaf ==
    /\ Running /\ Top.pc = "for" /\ Top.results # <<>>
    /\ LET block == Head(Top.results) IN
       /\ ~block.has_children
       /\ stack' = [stack EXCEPT ![Len(stack)] =
                       [@ EXCEPT !.blocks = Append(@, block),
                                 !.results = Tail(@)]]
    /\ UNCHANGED <<nodes, parent, page_size, max_retries, page_content, log, returned>>
    /\ UNCHANGED <<segVars, normVars, combVars, upVars>>

\* the block with children is not appended before the recursion
ForBlockRecurse_NoAppend ==
    /\ Running /\ Top.pc = "for" /\ Top.results # <<>>
    /\ LET block == Head(Top.results) IN
       /\ block.has_children
       /\ stack' = Append([stack EXCEPT ![Len(stack)] =
                              [@ EXCEPT !.results = Tail(@)]],
                          [block_id |-> block.id, blocks |-> <<>>,
                           start_cursor |-> 0, attempt |-> 0, results |-> <<>>,
                           has_more |-> FALSE, next_cursor |-> 0,
                           pc |-> "request"])
    /\ UNCHANGED <<nodes, parent, page_size, max_retries, page_content, log, returned>>
    /\ UNCHANGED <<segVars, normVars, combVars, upVars>>

\* one iteration on a block with children: append it, then call
\* get_all_blocks(block['id'], max_retries=max_retries)
ForBlockRecurse ==
    /\ Running /\ Top.pc = "for" /\ Top.results # <<>>
    /\ LET block == Head(Top.results) IN
       /\ block.has_children
       /\ stack' = Append([stack EXCEPT ![Len(stack)] =
                              [@ EXCEPT !.blocks = Append(@, block),
                                        !.results = Tail(@)]],
                          NewFrame(block.id))
    /\ UNCHANGED <<nodes, parent, page_size, max_retries, page_content, log, returned>>
    /\ UNCHANGED <<segVars, normVars, combVars, upVars>>

\* the for loop is over and has_more is set: next round of `while has_more`
NextPage ==
    /\ Running /\ Top.pc = "for" /\ Top.results = <<>> /\ Top.has_more
    /\ stack' = [stack EXCEPT ![Len(stack)] =
                    [@ EXCEPT !.start_cursor = Top.next_cursor,
                              !.attempt = 0,
                              !.pc = "request"]]
    /\ UNCHANGED <<nodes, parent, page_size, max_retries, page_content, log, returned>>
    /\ UNCHANGED <<segVars, normVars, combVars, upVars>>

\* the for loop is over and has_more is false: the while ends, return blocks
LastPage ==
    /\ Running /\ Top.pc = "for" /\ Top.results = <<>> /\ ~Top.has_more
    /\ ReturnBlocks(Top.blocks)
    /\ UNCHANGED <<nodes, parent, page_size, max_retries, log>>
    /\ UNCHANGED <<segVars, normVars, combVars, upVars>>

\* The remote documents tried: every tree on the page and up to MaxNodes
\* blocks, the children of a block in increasing id.
Trees(n) == {p \in [1..n -> 0..n] : \A k \in 1..n : p[k] < k}

\* get_notion_page_content(page_id, max_retries) has just called
\* get_all_blocks(page_id, max_retries=max_retries).
InitFetch ==
    /\ nodes \in 0..MaxNodes
    /\ parent \in Trees(nodes)
    /\ page_size \in 1..MaxPageSize
    /\ max_retries \in 0..MaxMaxRetries
    /\ stack = <<NewFrame(PageId)>>
    /\ page_content = <<>>
    /\ log = <<>>
    /\ returned = <<>>
    /\ SegIdle /\ NormIdle /\ CombIdle /\ UpIdle

NextFetch ==
    \/ RequestOk
    \/ RequestTransient
    \/ RequestUnexpected
    \/ NoAttempt
    \/ ForBlockLeaf
    \/ ForBlockRecurse
    \/ NextPage
    \/ LastPage

SpecFetch == InitFetch /\ [][NextFetch]_vars

(***************************************************************************)
(* format_content_for_notion                                               *)
(*                                                                         *)
(* A string is a sequence of characters; offsets are Python's: 0-based,    *)
(* the end of a slice exclusive.                                           *)
(***************************************************************************)
Alphabet   == {"$", "a", " ", "\n"}
Whitespace == {" ", "\n"}

Strings(n) == UNION {[1..k -> Alphabet] : k \in 0..n}

\* s[a:b]
Slice(s, a, b) == SubSeq(s, a + 1, b)

RECURSIVE LStrip(_)
LStrip(s) ==
    IF s # <<>> /\ Head(s) \in Whitespace THEN LStrip(Tail(s)) ELSE s
RECURSIVE RStrip(_)
RStrip(s) ==
    IF s # <<>> /\ s[Len(s)] \in Whitespace
    THEN RStrip(SubSeq(s, 1, Len(s) - 1)) ELSE s
\* str.strip()
Strip(s) == RStrip(LStrip(s))

\* re.compile(r'\$\$(.+?)\$\$', re.DOTALL) and re.compile(r'\$(.+?)\$'):
\* `width` dollars, one or more characters (any with DOTALL, any but a
\* newline without), `width` dollars.
pattern        == [width |-> 2, dotall |-> TRUE]
inline_pattern == [width |-> 1, dotall |-> FALSE]

Dollars(s, a, b) == \A k \in (a + 1)..b : s[k] = "$"

\* the ends of the matches of pat that start at offset `start` of s
MatchEnds(pat, s, start) ==
    {e \in (start + 2 * pat.width + 1)..Len(s) :
        /\ Dollars(s, start, start + pat.width)
        /\ Dollars(s, e - pat.width, e)
        /\ pat.dotall \/ \A k \in (start + pat.width + 1)..(e - pat.width) :
                             s[k] # "\n"}

SetMin(S) == CHOOSE x \in S : \A y \in S : x <= y

NoMatch == [start |-> -1, end |-> -1]

RECURSIVE Search(_, _, _)
\* pattern.search(s, pos): the leftmost match at or after pos; (.+?) is
\* lazy, so of the matches starting there the shortest.
Search(pat, s, pos) ==
    IF pos >= Len(s) THEN NoMatch
    ELSE IF MatchEnds(pat, s, pos) # {}
         THEN [start |-> pos, end |-> SetMin(MatchEnds(pat, s, pos))]
         ELSE Search(pat, s, pos + 1)

\* m.group(1)
Group1(pat, s, m) == Slice(s, m.start + pat.width, m.end - pat.width)

TextRun(content)        == [type |-> "text", content |-> content]
EquationRun(expression) == [type |-> "equation", expression |-> expression]

RECURSIVE SplitEquations_DropsTail(_, _, _)
\* the loop without its `remaining text` step
SplitEquations_DropsTail(pat, s, last_end) ==
    LET m == Search(pat, s, last_end) IN
    IF m = NoMatch THEN <<>>
    ELSE (IF m.start > last_end /\ Slice(s, last_end, m.start) # <<>>
          THEN <<TextRun(Slice(s, last_end, m.start))>> ELSE <<>>)
         \o (IF Strip(Group1(pat, s, m)) # <<>>
             THEN <<EquationRun(Strip(Group1(pat, s, m)))>> ELSE <<>>)
         \o SplitEquations_DropsTail(pat, s, m.end)

RECURSIVE SplitEquations_EmitsEmpty(_, _, _)
\* the loop without its `if eq:` guard
SplitEquations_EmitsEmpty(pat, s, last_end) ==
    LET m == Search(pat, s, last_end) IN
    IF m = NoMatch
    THEN IF last_end < Len(s) /\ Slice(s, last_end, Len(s)) # <<>>
         THEN <<TextRun(Slice(s, last_end, Len(s)))>> ELSE <<>>
    ELSE (IF m.start > last_end /\ Slice(s, last_end, m.start) # <<>>
          THEN <<TextRun(Slice(s, last_end, m.start))>> ELSE <<>>)
         \o <<EquationRun(Strip(Group1(pat, s, m)))>>
         \o SplitEquations_EmitsEmpty(pat, s, m.end)

RECURSIVE SplitEquations(_, _, _)
\* `for m in pattern.finditer(s)` from the match after last_end on, and the
\* `remaining text` step after the loop: the text before each match, the
\* stripped equation if it is not empty, the text after the last match.
SplitEquations(pat, s, last_end) ==
    LET m == Search(pat, s, last_end) IN
    IF m = NoMatch
    THEN IF last_end < Len(s) /\ Slice(s, last_end, Len(s)) # <<>>
         THEN <<TextRun(Slice(s, last_end, Len(s)))>> ELSE <<>>
    ELSE (IF m.start > last_end /\ Slice(s, last_end, m.start) # <<>>
          THEN <<TextRun(Slice(s, last_end, m.start))>> ELSE <<>>)
         \o (IF Strip(Group1(pat, s, m)) # <<>>
             THEN <<EquationRun(Strip(Group1(pat, s, m)))>> ELSE <<>>)
         \o SplitEquations(pat, s, m.end)

RECURSIVE InlinePass(_)
\* the second loop: text parts are split at $...$, equation parts pass through
InlinePass(parts) ==
    IF parts = <<>> THEN <<>>
    ELSE (IF Head(parts).type = "text"
          THEN SplitEquations(inline_pattern, Head(parts).content, 0)
          ELSE <<Head(parts)>>)
         \o InlinePass(Tail(parts))

\* format_content_for_notion(block) for a str
format_content_for_notion(block) ==
    InlinePass(SplitEquations(pattern, block, 0))

Segment ==
    /\ seg_pc = "call"
    /\ runs' = format_content_for_notion(text)
    /\ seg_pc' = "done"
    /\ UNCHANGED text
    /\ UNCHANGED <<fetchVars, normVars, combVars, upVars>>

InitSegment ==
    /\ text \in Strings(MaxTextLen)
    /\ runs = <<>>
    /\ seg_pc = "call"
    /\ FetchIdle /\ NormIdle /\ CombIdle /\ UpIdle

NextSegment == Segment

SpecSegment == InitSegment /\ [][NextSegment]_vars

(***************************************************************************)
(* blocks_to_dataframe / to_dataframe_safe                                 *)
(*                                                                         *)
(* A fetched block is a record of what the code reads of it: whether it    *)
(* has an 'id', its 'type', and of block[type] the 'rich_text' list, the   *)
(* 'text' list and the 'expression', each present or not.                  *)
(***************************************************************************)
TextItem(c)     == [type |-> "text", content |-> c]
EquationItem(e) == [type |-> "equation", expression |-> e]
MentionItem     == [type |-> "mention"]

RawBlock(type, has_id, has_rt, rt, has_text, txt, has_expr, expr) ==
    [id |-> 0, has_id |-> has_id, type |-> type,
     has_rich_text |-> has_rt, rich_text |-> rt,
     has_text |-> has_text, text |-> txt,
     has_expression |-> has_expr, expression |-> expr]

\* the blocks tried, well-formed and malformed
BlockShapes ==
    { RawBlock("paragraph", TRUE, TRUE,
               <<TextItem(<<"a">>), EquationItem(<<"a">>), MentionItem>>,
               FALSE, <<>>, FALSE, <<>>),
      RawBlock("heading_1", TRUE, TRUE, <<TextItem(<<"a", " ">>)>>,
               FALSE, <<>>, FALSE, <<>>),
      RawBlock("quote", TRUE, TRUE, <<EquationItem(<<"a">>)>>,
               FALSE, <<>>, FALSE, <<>>),
      RawBlock("code", TRUE, TRUE, <<TextItem(<<"a">>)>>,
               FALSE, <<>>, FALSE, <<>>),
      RawBlock("code", TRUE, FALSE, <<>>,
               TRUE, <<TextItem(<<"a">>), TextItem(<<" ">>)>>, FALSE, <<>>),
      RawBlock("divider", TRUE, FALSE, <<>>, FALSE, <<>>, FALSE, <<>>),
      RawBlock("equation", TRUE, FALSE, <<>>, FALSE, <<>>, TRUE, <<"a">>),
      \* malformed: a code block whose text list is empty
      RawBlock("code", TRUE, FALSE, <<>>, TRUE, <<>>, FALSE, <<>>),
      \* malformed: a block without an id
      RawBlock("paragraph", FALSE, TRUE, <<TextItem(<<"a">>)>>,
               FALSE, <<>>, FALSE, <<>>),
      \* malformed: a quote without rich_text
      RawBlock("quote", TRUE, FALSE, <<>>, FALSE, <<>>, FALSE, <<>>) }

\* f"$$ {expression} $$"
Wrapped(expression) == <<"$", "$", " ">> \o expression \o <<" ", "$", "$">>

RECURSIVE RichTextContent(_)
\* the loop over rich_text: text items verbatim, equation items wrapped,
\* items of any other type skipped
RichTextContent(items) ==
    IF items = <<>> THEN <<>>
    ELSE (IF Head(items).type = "text" THEN Head(items).content
          ELSE IF Head(items).type = "equation"
               THEN Wrapped(Head(items).expression)
               ELSE <<>>)
         \o RichTextContent(Tail(items))

Raised == [raised |-> TRUE]
Value(v) == [raised |-> FALSE, value |-> v]

\* the body of the for loop up to data.append: the content of one block, or
\* the exception a missing key or an empty list raises
Content(block) ==
    IF block.has_rich_text THEN Value(RichTextContent(block.rich_text))
    ELSE IF block.type = "code"
         THEN IF block.has_text /\ block.text # <<>>
              THEN Value(block.text[1].content) ELSE Raised
    ELSE IF block.type = "quote"
         THEN Raised    \* block['quote']['rich_text'] of a quote without it
    ELSE IF block.type = "equation"
         THEN IF block.has_expression
              THEN Value(Wrapped(block.expression)) ELSE Raised
    ELSE Value(<<>>)

\* data.append({'id': block['id'], 'type': block_type, 'content': content})
Row(block) ==
    IF Content(block).raised \/ ~block.has_id THEN Raised
    ELSE Value([id |-> block.id, type |-> block.type,
                content |-> Content(block).value])

RECURSIVE blocks_to_dataframe_SkipsBad(_)
\* a block that fails is skipped and the loop goes on
blocks_to_dataframe_SkipsBad(blocks) ==
    IF blocks = <<>> THEN Value(<<>>)
    ELSE Value((IF Row(Head(blocks)).raised THEN <<>>
                ELSE <<Row(Head(blocks)).value>>)
               \o blocks_to_dataframe_SkipsBad(Tail(blocks)).value)

RECURSIVE blocks_to_dataframe(_)
\* the rows of the DataFrame, or the exception of the first block that fails
blocks_to_dataframe(blocks) ==
    IF blocks = <<>> THEN Value(<<>>)
    ELSE IF Row(Head(blocks)).raised THEN Raised
    ELSE IF blocks_to_dataframe(Tail(blocks)).raised THEN Raised
    ELSE Value(<<Row(Head(blocks)).value>>
               \o blocks_to_dataframe(Tail(blocks)).value)

\* try: blocks_to_dataframe(blocks)  except Exception: pd.DataFrame([])
to_dataframe_safe(blocks) ==
    IF blocks_to_dataframe(blocks).raised THEN <<>>
    ELSE blocks_to_dataframe(blocks).value

Normalize ==
    /\ norm_pc = "call"
    /\ df_local' = to_dataframe_safe(raw_blocks)
    /\ norm_pc' = "done"
    /\ UNCHANGED raw_blocks
    /\ UNCHANGED <<fetchVars, segVars, combVars, upVars>>

InitNormalize ==
    /\ raw_blocks \in UNION {
          {[j \in 1..n |-> [f[j] EXCEPT !.id = j]] : f \in [1..n -> BlockShapes]}
          : n \in 0..MaxRawBlocks}
    /\ df_local = <<>>
    /\ norm_pc = "call"
    /\ FetchIdle /\ SegIdle /\ CombIdle /\ UpIdle

NextNormalize == Normalize

SpecNormalize == InitNormalize /\ [][NextNormalize]_vars

(***************************************************************************)
(* combine_text_and_equations                                              *)
(***************************************************************************)
RECURSIVE combine_EmitsEmptyParagraphs(_)
\* the paragraph branch without `if notion_block_content:`
combine_EmitsEmptyParagraphs(rows) ==
    IF rows = <<>> THEN <<>>
    ELSE LET row == Head(rows)
             notion_block_content == format_content_for_notion(row.content)
         IN (IF row.type = "divider" THEN <<[type |-> "divider"]>>
             ELSE IF row.type \in {"heading_3", "heading_2", "heading_1",
                                   "quote", "paragraph", "bulleted_list_item"}
                  THEN <<[type |-> row.type, rich_text |-> notion_block_content]>>
             ELSE IF row.type = "code"
                  THEN <<[type |-> "code", text |-> notion_block_content,
                          language |-> "python"]>>
             ELSE <<>>)
            \o combine_EmitsEmptyParagraphs(Tail(rows))

RECURSIVE combine_text_and_equations(_)
\* `for _, row in df.iterrows()`: the block each row appends, if any
combine_text_and_equations(rows) ==
    IF rows = <<>> THEN <<>>
    ELSE LET row == Head(rows)
             notion_block_content == format_content_for_notion(row.content)
         IN (IF row.type = "divider" THEN <<[type |-> "divider"]>>
             ELSE IF row.type \in {"heading_3", "heading_2", "heading_1"}
                  THEN <<[type |-> row.type, rich_text |-> notion_block_content]>>
             ELSE IF row.type = "quote"
                  THEN <<[type |-> "quote", rich_text |-> notion_block_content]>>
             ELSE IF row.type = "paragraph"
                  THEN IF notion_block_content # <<>>
                       THEN <<[type |-> "paragraph",
                               rich_text |-> notion_block_content]>>
                       ELSE <<>>
             ELSE IF row.type = "code"
                  THEN <<[type |-> "code", text |-> notion_block_content,
                          language |-> "python"]>>
             ELSE IF row.type = "bulleted_list_item"
                  THEN <<[type |-> "bulleted_list_item",
                          rich_text |-> notion_block_content]>>
             ELSE <<>>)
            \o combine_text_and_equations(Tail(rows))

Combine ==
    /\ comb_pc = "call"
    /\ combined' = combine_text_and_equations(df)
    /\ comb_pc' = "done"
    /\ UNCHANGED df
    /\ UNCHANGED <<fetchVars, segVars, normVars, upVars>>

\* the record types and contents tried
RowTypes == {"divider", "heading_1", "heading_2", "heading_3", "quote",
             "paragraph", "code", "bulleted_list_item", "equation"}
RowContents == {<<>>, <<"$", " ", "$">>, <<"a", "$", "a", "$">>}

InitCombine ==
    /\ df \in UNION {
          {[j \in 1..n |-> [id |-> j, type |-> t[j], content |-> c[j]]]
              : t \in [1..n -> RowTypes], c \in [1..n -> RowContents]}
          : n \in 0..MaxRows}
    /\ combined = <<>>
    /\ comb_pc = "call"
    /\ FetchIdle /\ SegIdle /\ NormIdle /\ UpIdle

NextCombine == Combine

SpecCombine == InitCombine /\ [][NextCombine]_vars

(***************************************************************************)
(* upload_blocks_in_batches / upload_to_notion                             *)
(***************************************************************************)
\* upload_to_notion(page_id, batch): one requests.patch with the batch as
\* children; whatever its outcome, it returns and nothing is raised.
upload_to_notion(children_blocks, outcome) ==
    writes' = Append(writes, [children |-> children_blocks, outcome |-> outcome])

\* batch = combined_blocks[i:i+batch_size]
Batch == Slice(combined_blocks, i, Min(i + batch_size, Len(combined_blocks)))

\* one iteration of `for i in range(0, total, batch_size)`
Iteration(outcome) ==
    /\ up_pc = "loop" /\ i < Len(combined_blocks)
    /\ upload_to_notion(Batch, outcome)
    /\ i' = i + batch_size
    /\ UNCHANGED <<combined_blocks, batch_size, up_pc>>
    /\ UNCHANGED <<fetchVars, segVars, normVars, combVars>>

\* a failed write ends the loop
UploadRequestException_Aborts ==
    /\ up_pc = "loop" /\ i < Len(combined_blocks)
    /\ upload_to_notion(Batch, "request_exception")
    /\ i' = i + batch_size
    /\ up_pc' = "done"
    /\ UNCHANGED <<combined_blocks, batch_size>>
    /\ UNCHANGED <<fetchVars, segVars, normVars, combVars>>

\* the write succeeds: response.json() is returned and dropped by the caller
UploadOk == Iteration("ok")

\* requests.exceptions.RequestException: logged, None returned
UploadRequestException == Iteration("request_exception")

\* any other exception: logged, None returned
UploadUnexpected == Iteration("unexpected")

\* range(0, total, batch_size) is exhausted
UploadReturn ==
    /\ up_pc = "loop" /\ ~(i < Len(combined_blocks))
    /\ up_pc' = "done"
    /\ UNCHANGED <<combined_blocks, batch_size, i, writes>>
    /\ UNCHANGED <<fetchVars, segVars, normVars, combVars>>

\* the blocks are told apart by their place in the list
InitUpload ==
    /\ combined_blocks \in {[j \in 1..n |-> j] : n \in 0..MaxUpload}
    /\ batch_size \in 1..MaxBatchSize
    /\ i = 0
    /\ writes = <<>>
    /\ up_pc = "loop"
    /\ FetchIdle /\ SegIdle /\ NormIdle /\ CombIdle

NextUpload ==
    \/ UploadOk
    \/ UploadRequestException
    \/ UploadUnexpected
    \/ UploadReturn

SpecUpload == InitUpload /\ [][NextUpload]_vars

(***************************************************************************)
(* What the claims about the fetcher speak of.                             *)
(***************************************************************************)
Finished(b) == b \in DOMAIN returned
FetchDone   == ~Running

RECURSIVE IsAncestor(_, _)
\* a is a proper ancestor of block k in the remote document
IsAncestor(a, k) ==
    IF k = PageId THEN FALSE
    ELSE parent[k] = a \/ IsAncestor(a, parent[k])
Descendants(b) == {k \in 1..nodes : IsAncestor(b, k)}

RECURSIVE PreOrderIds(_)
RECURSIVE PreOrderOfList(_)
\* depth-first pre-order of the ids below b: each child, then its subtree,
\* then the next child
PreOrderIds(b) == PreOrderOfList(Children(b))
PreOrderOfList(ch) ==
    IF ch = <<>> THEN <<>>
    ELSE <<Head(ch)>> \o PreOrderIds(Head(ch)) \o PreOrderOfList(Tail(ch))

Ids(blocks) == [j \in 1..Len(blocks) |-> blocks[j].id]
NoDuplicates(s) == \A j, k \in 1..Len(s) : s[j] = s[k] => j = k

RECURSIVE IsSubsequence(_, _)
IsSubsequence(s, t) ==
    IF s = <<>> THEN TRUE
    ELSE IF t = <<>> THEN FALSE
    ELSE IF Head(s) = Head(t) THEN IsSubsequence(Tail(s), Tail(t))
    ELSE IsSubsequence(s, Tail(t))

\* the page a cursor stands for
PageOf(cursor) == IF cursor = NoCursor THEN 1 ELSE cursor

\* log[j] and log[k] are attempts at the same page of the same listing
SamePage(j, k) ==
    log[j].block_id = log[k].block_id /\ log[j].cursor = log[k].cursor

RECURSIVE AttemptNo(_)
\* log[j] is the AttemptNo(j)-th consecutive attempt of its page request
AttemptNo(j) ==
    IF j > 1 /\ SamePage(j - 1, j) THEN AttemptNo(j - 1) + 1 ELSE 1

\* a request of the call for b, or of a call below it, failed
FailedBelow(b) ==
    \E j \in 1..Len(log) :
        /\ log[j].outcome # "ok"
        /\ log[j].block_id = b \/ IsAncestor(b, log[j].block_id)

\* log[j] is the failure that exhausts the retries of its page request
Exhausting(j) ==
    log[j].outcome = "transient" /\ AttemptNo(j) = max_retries

\* the children of b on the pages before page p
ChildrenBefore(b, p) ==
    SubSeq(Children(b), 1, Min((p - 1) * page_size, Len(Children(b))))

RECURSIVE WithSubtrees(_)
\* each block of ch followed by what the call for it returned
WithSubtrees(ch) ==
    IF ch = <<>> THEN <<>>
    ELSE <<Block(Head(ch))>>
         \o (IF Block(Head(ch)).has_children /\ Finished(Head(ch))
             THEN returned[Head(ch)] ELSE <<>>)
         \o WithSubtrees(Tail(ch))

\* C1 as stated: when no page request fails, get_all_blocks(blockId) returns
\* every descendant of blockId exactly once, in depth-first pre-order, and the
\* length of the result is the number of descendants.
C1_AsStated ==
    \A b \in 0..nodes :
        (Finished(b) /\ ~FailedBelow(b)) =>
            /\ Ids(returned[b]) = PreOrderIds(b)
            /\ Len(returned[b]) = Cardinality(Descendants(b))

\* C1 amended: the same, for max_retries >= 1 (with max_retries <= 0 no request
\* is made and the result is empty).
C1_PreOrder ==
    \A b \in 0..nodes :
        (Finished(b) /\ ~FailedBelow(b) /\ max_retries >= 1) =>
            /\ Ids(returned[b]) = PreOrderIds(b)
            /\ NoDuplicates(Ids(returned[b]))
            /\ {returned[b][j].id : j \in 1..Len(returned[b])} = Descendants(b)
            /\ Len(returned[b]) = Cardinality(Descendants(b))

\* a three-level document fetched page by page without a failure
C1_Witness ==
    /\ FetchDone /\ max_retries >= 1 /\ ~FailedBelow(PageId)
    /\ nodes = 3 /\ parent[2] = 1 /\ parent[3] = 0 /\ page_size = 1
    /\ Len(page_content) = 3

\* C2: every page request gets at most max_retries attempts; the k-th
\* consecutive transient failure is followed by a sleep of min(2k, 5) when
\* k < max_retries and by none when k = max_retries; with max_retries = 3,
\* three transient failures in a row end the call without a fourth attempt
\* after 2 + 4 = 6 time units of sleep.
C2_RetryBackoff ==
    \A j \in 1..Len(log) :
        LET k == AttemptNo(j) IN
        /\ k <= max_retries
        /\ (j > 1 /\ SamePage(j - 1, j)) => log[j - 1].outcome = "transient"
        /\ log[j].outcome = "transient" =>
              log[j].slept = IF k < max_retries
                             THEN (IF 2 * k < 5 THEN 2 * k ELSE 5)
                             ELSE 0
        /\ (max_retries = 3 /\ k = 3 /\ log[j].outcome = "transient") =>
              /\ Finished(log[j].block_id)
              /\ log[j - 2].slept + log[j - 1].slept + log[j].slept <= 6
              /\ \A m \in (j + 1)..Len(log) : ~SamePage(j, m)

\* three transient failures in a row with max_retries = 3
C2_Witness ==
    \E j \in 1..Len(log) :
        /\ max_retries = 3 /\ AttemptNo(j) = 3 /\ log[j].outcome = "transient"
        /\ log[j - 2].slept + log[j - 1].slept + log[j].slept = 6

\* C3: when the retries for a page of b's listing are exhausted, the call for
\* b returns the blocks of the earlier pages with the subtrees fetched for
\* them and requests no later page of b; the caller is not aborted: it is
\* still running or has returned, and a parent whose own listing did not fail
\* returns all its children, each with what the call for it returned.
C3_PartialResult ==
    \A j \in 1..Len(log) :
        Exhausting(j) =>
            LET b == log[j].block_id
                p == PageOf(log[j].cursor)
            IN
            /\ Finished(b)
            /\ returned[b] = WithSubtrees(ChildrenBefore(b, p))
            /\ \A m \in 1..Len(log) :
                  log[m].block_id = b => PageOf(log[m].cursor) <= p
            /\ (b # PageId /\ ~Finished(parent[b])) =>
                  \E m \in 1..Len(stack) : stack[m].block_id = parent[b]
            /\ (b # PageId /\ Finished(parent[b])
                  /\ \A m \in 1..Len(log) :
                        log[m].block_id = parent[b] => log[m].outcome = "ok") =>
                  returned[parent[b]] = WithSubtrees(Children(parent[b]))

\* the second page of the listing of block 1 is given up after its first
\* page was read; the fetch of the page goes on and returns blocks 1 and 2
C3_Witness ==
    /\ FetchDone /\ page_size = 1
    /\ \E j \in 1..Len(log) :
          /\ Exhausting(j) /\ log[j].block_id = 1 /\ PageOf(log[j].cursor) = 2
    /\ Ids(returned[1]) = <<2>>
    /\ Ids(page_content) = <<1, 2>>

\* the document of C9: the page A holds B and C, B holds D
\* (A is block 0, B is 1, D is 2, C is 3)
C9_Tree == nodes = 3 /\ parent = <<0, 1, 0>>

\* C9 as stated: fetching the tree rooted at A yields [A, B, D, C].
C9_AsStated ==
    (FetchDone /\ C9_Tree /\ max_retries >= 1 /\ ~FailedBelow(PageId)) =>
        Ids(page_content) = <<0, 1, 2, 3>>

\* C9 amended: with max_retries >= 1 and no failing request it yields
\* [B, D, C]; the root A is not part of the result.
C9_ChildrenOnly ==
    (FetchDone /\ C9_Tree /\ max_retries >= 1 /\ ~FailedBelow(PageId)) =>
        /\ Ids(page_content) = <<1, 2, 3>>
        /\ \A j \in 1..Len(page_content) : page_content[j].id # PageId

C9_Witness ==
    FetchDone /\ C9_Tree /\ max_retries >= 1 /\ ~FailedBelow(PageId)

\* C10: under every pattern of failures and every max_retries, 0 included,
\* what a call returns is a duplicate-free subsequence of the failure-free
\* pre-order, and every returned block that is not a child of the requested
\* block has its parent earlier in the result.
C10_SafeSubsequence ==
    \A b \in 0..nodes :
        Finished(b) =>
            LET r == Ids(returned[b]) IN
            /\ NoDuplicates(r)
            /\ IsSubsequence(r, PreOrderIds(b))
            /\ \A j \in 1..Len(r) :
                  parent[r[j]] # b => \E k \in 1..(j - 1) : r[k] = parent[r[j]]

\* a fetch that lost part of the document to a failure and kept a nested block
C10_Witness ==
    /\ FetchDone /\ FailedBelow(PageId)
    /\ Len(page_content) < nodes
    /\ \E j \in 1..Len(page_content) : parent[page_content[j].id] # PageId

(***************************************************************************)
(* What the claims about the segmenter speak of.                           *)
(***************************************************************************)
SegDone == seg_pc = "done"

RunValue(r) == IF r.type = "text" THEN r.content ELSE r.expression

RECURSIVE TextOf(_)
\* the values of the text runs, concatenated
TextOf(rs) ==
    IF rs = <<>> THEN <<>>
    ELSE (IF Head(rs).type = "text" THEN Head(rs).content ELSE <<>>)
         \o TextOf(Tail(rs))

RECURSIVE FindAll(_, _, _, _)
\* the matches of pat in s[pos:to], as regions of s
FindAll(pat, s, pos, to) ==
    LET m == Search(pat, SubSeq(s, 1, to), pos) IN
    IF m = NoMatch THEN {}
    ELSE {[start |-> m.start, end |-> m.end, width |-> pat.width]}
         \cup FindAll(pat, s, m.end, to)

\* the $$...$$ regions of s
BlockRegions(s) == FindAll(pattern, s, 0, Len(s))

\* the stretches of s between the $$...$$ regions
Gaps(s) ==
    LET blk == BlockRegions(s) IN
    {g \in (0..Len(s)) \X (0..Len(s)) :
        /\ g[1] < g[2]
        /\ \A r \in blk : r.end <= g[1] \/ g[2] <= r.start
        /\ g[1] = 0 \/ \E r \in blk : r.end = g[1]
        /\ g[2] = Len(s) \/ \E r \in blk : r.start = g[2]}

\* the $...$ regions of s: those of each stretch between $$...$$ regions
InlineRegions(s) ==
    UNION {FindAll(inline_pattern, s, g[1], g[2]) : g \in Gaps(s)}

\* the equation-delimited regions of s, delimiters included
Regions(s) == BlockRegions(s) \cup InlineRegions(s)

RECURSIVE Outside(_, _, _)
\* s from offset k on, with the regions regs removed
Outside(s, regs, k) ==
    IF k >= Len(s) THEN <<>>
    ELSE (IF \E r \in regs : r.start <= k /\ k < r.end
          THEN <<>> ELSE <<s[k + 1]>>)
         \o Outside(s, regs, k + 1)

Expression(s, r) == Strip(Slice(s, r.start + r.width, r.end - r.width))

RECURSIVE InOrder(_, _, _)
\* the runs of s from offset k on, by position: each region of regs with a
\* non-empty expression an equation run, each maximal stretch outside the
\* regions a text run
InOrder(s, regs, k) ==
    IF k >= Len(s) THEN <<>>
    ELSE IF \E r \in regs : r.start = k
    THEN LET r == CHOOSE r \in regs : r.start = k IN
         (IF Expression(s, r) # <<>>
          THEN <<EquationRun(Expression(s, r))>> ELSE <<>>)
         \o InOrder(s, regs, r.end)
    ELSE LET q == SetMin({r.start : r \in {x \in regs : x.start > k}}
                         \cup {Len(s)}) IN
         <<TextRun(Slice(s, k, q))>> \o InOrder(s, regs, q)

\* C6 as stated: no run has an empty value or expression, and adjacent
\* delimiters with nothing between them ("$$" as an empty inline equation,
\* "$$$$" as an empty block equation) produce no run at all.
C6_AsStated ==
    SegDone =>
        /\ \A j \in 1..Len(runs) : RunValue(runs[j]) # <<>>
        /\ text \in {<<"$", "$">>, <<"$", "$", "$", "$">>} => runs = <<>>

\* C6 amended: no run has an empty value or expression, and a delimited
\* region whose content is only whitespace produces no run; adjacent
\* delimiters with nothing between them are not a region: "$$" comes back as
\* the text run "$$", "$$$$" as the equation run "$" and the text run "$".
C6_NoEmptyRun ==
    SegDone =>
        /\ \A j \in 1..Len(runs) : RunValue(runs[j]) # <<>>
        /\ Cardinality({j \in 1..Len(runs) : runs[j].type = "equation"})
              = Cardinality({r \in Regions(text) : Expression(text, r) # <<>>})
        /\ text \in {<<"$", " ", "$">>, <<"$", "$", " ", "$", "$">>}
              => runs = <<>>
        /\ text = <<"$", "$">> => runs = <<TextRun(<<"$", "$">>)>>
        /\ text = <<"$", "$", "$", "$">>
              => runs = <<EquationRun(<<"$">>), TextRun(<<"$">>)>>

\* a whitespace-only block equation next to text: only the text comes back
C6_Witness ==
    /\ SegDone
    /\ text = <<"a", "$", "$", " ", "$", "$">>
    /\ runs = <<TextRun(<<"a">>)>>

\* C7: the runs are in the left-to-right order of their places in the text,
\* and the text runs concatenated are the text with every equation-delimited
\* region removed.
C7_OrderedLossless ==
    SegDone =>
        LET regs == Regions(text) IN
        /\ runs = InOrder(text, regs, 0)
        /\ TextOf(runs) = Outside(text, regs, 0)

\* text, a block equation, more text
C7_Witness ==
    /\ SegDone
    /\ text = <<"a", "$", "$", "a", "$", "$", " ">>
    /\ runs = <<TextRun(<<"a">>), EquationRun(<<"a">>), TextRun(<<" ">>)>>

(***************************************************************************)
(* What the claims about the normalizer, the reassembler and the batch     *)
(* writer speak of.                                                        *)
(***************************************************************************)
NormDone == norm_pc = "done"

\* extraction fails for this block: it has no id, or the branch its type
\* takes reads a key or a list element that is not there
Malformed(block) ==
    \/ ~block.has_id
    \/ ~block.has_rich_text /\ block.type = "code"
          /\ (~block.has_text \/ block.text = <<>>)
    \/ ~block.has_rich_text /\ block.type = "quote"
    \/ ~block.has_rich_text /\ block.type = "equation" /\ ~block.has_expression

GoodIds == SelectSeq([j \in 1..Len(raw_blocks) |-> j],
                     LAMBDA j : ~Malformed(raw_blocks[j]))
RowIds(rows) == [j \in 1..Len(rows) |-> rows[j].id]

CombDone == comb_pc = "done"

AlwaysEmitted == {"divider", "heading_1", "heading_2", "heading_3", "quote",
                  "code", "bulleted_list_item"}

\* the record produces an outbound block
Emitted(row) ==
    \/ row.type \in AlwaysEmitted
    \/ row.type = "paragraph" /\ format_content_for_notion(row.content) # <<>>

EmittedRows == SelectSeq(df, Emitted)

\* the runs an outbound block carries (a divider carries none)
RunsOf(b) ==
    IF b.type = "divider" THEN <<>>
    ELSE IF b.type = "code" THEN b.text ELSE b.rich_text

\* C8: the outbound blocks are those of the divider, heading, quote, code
\* and bulleted_list_item records and of the paragraph records with
\* non-empty runs, in input order, each with its record's type and runs;
\* paragraphs with empty runs and records of other types produce nothing.
C8_Reassembly ==
    CombDone =>
        LET rows == EmittedRows IN
        /\ Len(combined) = Len(rows)
        /\ \A j \in 1..Len(combined) :
              /\ combined[j].type = rows[j].type
              /\ rows[j].type # "divider" =>
                    RunsOf(combined[j])
                        = format_content_for_notion(rows[j].content)

\* an empty paragraph is dropped, the heading with empty runs after it is not
C8_Witness ==
    /\ CombDone
    /\ Len(df) = 2
    /\ df[1].type = "paragraph" /\ df[1].content = <<"$", " ", "$">>
    /\ df[2].type = "heading_1" /\ df[2].content = <<>>
    /\ combined = <<[type |-> "heading_1", rich_text |-> <<>>]>>

UpDone == up_pc = "done"

\* the k-th contiguous chunk of batch_size blocks of the list
Chunk(k) ==
    SubSeq(combined_blocks, (k - 1) * batch_size + 1,
           Min(k * batch_size, Len(combined_blocks)))

\* ceil(n / batch_size)
CeilDiv(n, d) == (n + d - 1) \div d

RECURSIVE Sent(_)
\* all the children of the writes, in the order sent
Sent(ws) == IF ws = <<>> THEN <<>> ELSE Head(ws).children \o Sent(Tail(ws))

\* C4: the writes are the contiguous chunks of the list, in order, one write
\* per chunk whatever the outcomes of the writes; when the upload returns
\* there have been ceil(n / batch_size) of them, the last with n mod
\* batch_size blocks (batch_size when that is 0 and n > 0), and every block
\* was sent exactly once.
C4_Batches ==
    LET n == Len(combined_blocks) IN
    /\ \A k \in 1..Len(writes) : writes[k].children = Chunk(k)
    /\ Len(writes) <= CeilDiv(n, batch_size)
    /\ UpDone =>
          /\ Len(writes) = CeilDiv(n, batch_size)
          /\ Sent(writes) = combined_blocks
          /\ \A k \in 1..(Len(writes) - 1) :
                Len(writes[k].children) = batch_size
          /\ n > 0 =>
                Len(writes[Len(writes)].children)
                    = IF n % batch_size = 0 THEN batch_size ELSE n % batch_size

\* five blocks in batches of two: the second write fails, the third is sent
C4_Witness ==
    /\ UpDone
    /\ Len(combined_blocks) = 5 /\ batch_size = 2
    /\ Len(writes) = 3
    /\ writes[2].outcome = "request_exception"
    /\ writes[3].children = <<5>>

====
